---------------------------- MODULE Spec2Model ----------------------------
(***************************************************************************)
(* swat-collector: the poll loop with its edge-triggered alert state       *)
(* machine (src/src/main.rs, src/src/webhook.rs) and the liveness          *)
(* heartbeat: clock, socket server and one-shot probe                      *)
(* (src/src/health_check.rs).                                              *)
(***************************************************************************)
EXTENDS Integers, Sequences, FiniteSets, TLC

(***************************************************************************)
(* Bounds of the model.                                                    *)
(***************************************************************************)
\* number of entries of locations::LOCATIONS.locations
NumLocations == 3
\* poll cycles a behaviour runs through
MaxCycles == 5
\* resolution of the system clock: ticks per second
TicksPerSec == 2
\* the system clock at start, in seconds since the epoch
BootSecs == 4
\* ticks of the system clock a behaviour runs through
Horizon == 8
\* times the system clock is set back during a behaviour
MaxSetBacks == 1
\* probe invocations during a behaviour
MaxProbes == 2
\* values of one byte on the wire (256 in the program)
ByteBase == 4
\* other processes that connect to the socket during a behaviour
MaxClients == 1
\* steps of the clock per poll interval, when the poll loop is timed
Slots == 4
\* steps of the clock a timed behaviour runs through
MaxSlots == 9

(***************************************************************************)
(* Program constants.                                                      *)
(***************************************************************************)
\* twilight_validate::embed::FIELD_COUNT, the cap webhook.alert applies
FIELD_COUNT == 25
\* health_check.rs: exit codes of the probe
HEALTHY == 0
UNHEALTHY == 1
\* health_check.rs: HEALTHY_UPDATE_TIME in seconds, the cfg(test) value
HEALTHY_UPDATE_TIME == 3
\* health_check.rs: HEALTHY_UPDATE_TIME in seconds, the cfg(not(test)) value
HEALTHY_UPDATE_TIME_RELEASE == 180
\* main.rs: the period of the poll loop's interval, in seconds
POLL_INTERVAL == 120
\* std::time::UNIX_EPOCH, in ticks
UNIX_EPOCH == 0
\* bytes of the reply: the u64 of to_ne_bytes, the probe's buf
ReplyLen == 8

Locations == 1..NumLocations

\* HandleLocationError variants a location can fail with
ErrorKinds == {"RequestForecast"}

Min(a, b) == IF a < b THEN a ELSE b

VARIABLES
    poll_pc,          \* position of the poll loop: "tick", "collect" (when
                      \* the loop is timed), "update", "alert"
    errors,           \* main: the cycle's Vec of (location, error)
    errors_reported,  \* main: the alert state
    log,              \* every webhook execution so far: kind and outcome
    sent,             \* the webhook executions of the last evaluation
    before,           \* errors_reported when the last evaluation began
    cycle,            \* poll cycles started
    changes,          \* changes between empty and non-empty batches so far
    run_len,          \* length of the current run of non-empty batches
    run_alerts,       \* alert executions during the current run
    run_differs,      \* the current run holds two different batches
    scen,             \* cycles of Scenario matched so far, -1 when off it
    poll_updates,     \* calls of update() the poll loop has made
    evals,            \* calls of handle_location_errors that have returned
    endian,           \* byte order of the target: "little" or "big"
    build,            \* the build: "test" (cfg(test)) or "release"
    wall,             \* SystemTime::now(), in ticks since the epoch
    setbacks,         \* times the system clock was set back
    last_db_write,    \* LAST_DB_WRITE, in ticks since the epoch
    updated,          \* update() has been called
    adjusted,         \* the clock was set back since the last update()
    revived,          \* the last update() came a threshold or more after
                      \* the one before
    srv_pc,           \* position of the server task: "bind", "accept",
                      \* "read", "respond", "stopped"; and "lock", "write"
                      \* when respond is followed statement by statement
    srv_conn,         \* the connection listen_loop holds, 0 for none
    backlog,          \* connections waiting to be accepted, oldest first
    conn,             \* the connections, by number
    abandoned,        \* the connection the last finished iteration of
                      \* listen_loop left by `continue`, 0 when it replied
                      \* or none has finished
    clients,          \* connections other processes have made so far
    deadline,         \* the instant the interval's next tick is due
    started,          \* the instant the last tick completed
    short_gap,        \* the last tick completed less than one period after
                      \* the one before
    guard,            \* holder of the mutex of LAST_DB_WRITE: "free",
                      \* "server" (respond) or "update"
    upd_pc,           \* position of a call of update(): "idle" outside it,
                      \* "lock", "secs", "nanos"
    upd_now,          \* the SystemTime::now() update() is storing
    committed,        \* the value the last completed update() stored
    probe_pc,         \* position of the probe: "none", "ping", "read", "exited"
    probe_conn,       \* the probe's connection, 0 for none
    probes,           \* probe invocations so far
    exit_code,        \* exit code of the last probe, -1 before it exits
    verdict           \* what the last probe saw when it decided

alertVars == <<poll_pc, errors, errors_reported, log, sent, before, cycle, changes,
               run_len, run_alerts, run_differs, scen, poll_updates, evals>>

clockVars == <<endian, build, wall, setbacks, last_db_write, updated, adjusted, revived>>

srvVars == <<srv_pc, srv_conn, backlog, conn, abandoned>>

cliVars == <<clients>>

timerVars == <<deadline, started, short_gap>>

guardVars == <<guard, upd_pc, upd_now, committed>>

\* what the poll loop, the clock, the server and the probe leave alone
auxVars == <<cliVars, timerVars, guardVars>>

probeVars == <<probe_pc, probe_conn, probes, exit_code, verdict>>

vars == <<alertVars, clockVars, srvVars, probeVars, auxVars>>

(***************************************************************************)
(* The per-cycle ErrorBatch: handle_location fails for some locations, and *)
(* handle_location_error pushes them in LOCATIONS order.                   *)
(***************************************************************************)
RECURSIVE CollectErrors(_, _)
CollectErrors(outcome, l) ==
    IF l > NumLocations THEN <<>>
    ELSE IF outcome[l] = "ok" THEN CollectErrors(outcome, l + 1)
    ELSE <<[location |-> l, error |-> outcome[l]]>> \o CollectErrors(outcome, l + 1)

Outcomes == [Locations -> {"ok"} \cup ErrorKinds]

\* the batches of the concrete scenario [E1], [], [E2,E3], [E2,E3], []
E1 == [location |-> 1, error |-> "RequestForecast"]
E2 == [location |-> 2, error |-> "RequestForecast"]
E3 == [location |-> 3, error |-> "RequestForecast"]
Scenario == << <<E1>>, <<>>, <<E2, E3>>, <<E2, E3>>, <<>> >>

(***************************************************************************)
(* webhook.rs: alert builds one embed field per error, at most FIELD_COUNT,*)
(* and executes the webhook; resolved executes it with no fields.          *)
(***************************************************************************)
alert(errs, ok) ==
    /\ log' = Append(log, [kind |-> "alert", ok |-> ok])
    /\ sent' = <<[kind |-> "alert",
                  fields |-> SubSeq(errs, 1, Min(Len(errs), FIELD_COUNT)),
                  ok |-> ok]>>

resolved(ok) ==
    /\ log' = Append(log, [kind |-> "resolved", ok |-> ok])
    /\ sent' = <<[kind |-> "resolved", fields |-> <<>>, ok |-> ok]>>

(***************************************************************************)
(* main.rs handle_location_errors; ok is the outcome of the webhook call.  *)
(***************************************************************************)
hle_always_sets(errs, ok) ==
    CASE errs # <<>> /\ ~errors_reported ->
            alert(errs, ok) /\ errors_reported' = TRUE
      [] errs = <<>> /\ errors_reported ->
            resolved(ok) /\ errors_reported' = FALSE
      [] OTHER -> UNCHANGED <<errors_reported, log>> /\ sent' = <<>>

hle_level_triggered(errs, ok) ==
    CASE errs # <<>> ->
            alert(errs, ok) /\ errors_reported' = (ok \/ errors_reported)
      [] errs = <<>> /\ errors_reported ->
            resolved(ok) /\ errors_reported' = ~ok
      [] OTHER -> UNCHANGED <<errors_reported, log>> /\ sent' = <<>>

hle_resolved_twice(errs, ok) ==
    CASE errs # <<>> /\ ~errors_reported ->
            alert(errs, ok) /\ errors_reported' = ok
      [] errs = <<>> ->
            resolved(ok) /\ errors_reported' = (errors_reported /\ ~ok)
      [] OTHER -> UNCHANGED <<errors_reported, log>> /\ sent' = <<>>

hle_gives_up(errs, ok) ==
    CASE errs # <<>> /\ ~errors_reported ->
            alert(errs, ok) /\ errors_reported' = TRUE
      [] errs = <<>> /\ errors_reported ->
            resolved(ok) /\ errors_reported' = ~ok
      [] OTHER -> UNCHANGED <<errors_reported, log>> /\ sent' = <<>>

handle_location_errors(errs, ok) ==
    CASE errs # <<>> /\ ~errors_reported ->
            alert(errs, ok) /\ errors_reported' = (IF ok THEN TRUE ELSE errors_reported)
      [] errs = <<>> /\ errors_reported ->
            resolved(ok) /\ errors_reported' = (IF ok THEN FALSE ELSE errors_reported)
      [] OTHER -> UNCHANGED <<errors_reported, log>> /\ sent' = <<>>

(***************************************************************************)
(* Time. The system clock is read in ticks; SystemTime is not monotonic:   *)
(* it advances, and it can be set back.                                    *)
(***************************************************************************)
\* the period of the poll loop's interval, and one step of the clock of a
\* timed behaviour, in ticks
Period == POLL_INTERVAL * TicksPerSec
Quantum == Period \div Slots

Threshold_one_period == Period

Threshold ==
    (IF build = "test" THEN HEALTHY_UPDATE_TIME ELSE HEALTHY_UPDATE_TIME_RELEASE)
        * TicksPerSec

\* the system clock at start, in ticks: further from the epoch than any
\* age a probe tells apart
BootWall ==
    (IF build = "test" THEN BootSecs ELSE BootSecs + 2 * POLL_INTERVAL) * TicksPerSec
MaxWall == BootWall + Horizon

\* whole seconds with a started second counted as a whole one
as_secs_rounded_up(t) == (t + TicksPerSec - 1) \div TicksPerSec

\* Duration::as_secs: whole seconds, the fraction dropped
as_secs(t) == t \div TicksPerSec

\* Duration::from_secs, in ticks
from_secs(secs) == secs * TicksPerSec

RECURSIVE Pow(_, _)
Pow(b, e) == IF e = 0 THEN 1 ELSE b * Pow(b, e - 1)

\* u64::to_ne_bytes: ReplyLen bytes in the byte order of the target
to_ne_bytes(n) ==
    [i \in 1..ReplyLen |->
        LET place == IF endian = "little" THEN i - 1 ELSE ReplyLen - i
        IN (n \div Pow(ByteBase, place)) % ByteBase]

RECURSIVE SumBytes(_, _)
SumBytes(buf, i) ==
    IF i > ReplyLen THEN 0
    ELSE LET place == IF endian = "little" THEN i - 1 ELSE ReplyLen - i
         IN buf[i] * Pow(ByteBase, place) + SumBytes(buf, i + 1)

\* u64::from_ne_bytes
from_ne_bytes(buf) == SumBytes(buf, 1)

(***************************************************************************)
(* Connections on the socket at HEALTH_CHECK_PATH.                         *)
(*   ping      bytes the client wrote that the server has not read         *)
(*   reply     bytes the server wrote                                      *)
(*   cli_open  the client holds its end                                    *)
(*   srv_open  the listener or the server task holds its end               *)
(*   snap      LAST_DB_WRITE when the reply was written                    *)
(*   setback   the clock was set back between the update() the reply       *)
(*             reports and now                                             *)
(***************************************************************************)
NoConn == [ping |-> 0, reply |-> <<>>, cli_open |-> FALSE, srv_open |-> FALSE,
           snap |-> UNIX_EPOCH, setback |-> FALSE]

NewConn == [NoConn EXCEPT !.cli_open = TRUE, !.srv_open = TRUE]

ConnIds == 1..(MaxProbes + MaxClients)

Norm(c) == IF ~c.cli_open /\ ~c.srv_open THEN NoConn ELSE c

\* connect succeeding on the socket file the ended server task left behind
Listening_stale == srv_pc # "bind"

Listening == srv_pc \in {"accept", "read", "respond", "lock", "write"}

\* connections are numbered in the order connect() queued them
NextConn == probes + clients + 1

\* What a probe saw when it decided:
\*   result    what check_impl returned
\*   n         bytes try_read returned, -1 when it was not reached
\*   within    the snapshot, in whole seconds, is less than the threshold
\*             behind the probe's clock (or ahead of it)
\*   ahead     the decoded time is ahead of the probe's clock: 0 no,
\*             1 by less than the threshold, 2 by the threshold or more
\*   age       the probe's clock less LAST_DB_WRITE: "early" up to the
\*             threshold less one second, "late" from there to below the
\*             threshold, "edge" the threshold, "over" beyond it
\*   fresh     the snapshot is the value of the last update()
\*   setback   the clock was set back since the update() the reply reports
\*   revived   the last update() came a threshold or more after the one before
\*   connects  connections the invocation made
\*   halves    half poll periods between LAST_DB_WRITE and the probe's
\*             clock, 4 for four or more
\*   down      connect failed because the server task had ended
NoVerdict == [result |-> "none", n |-> -1, within |-> FALSE, ahead |-> 0,
              age |-> "none", fresh |-> FALSE,
              setback |-> FALSE, revived |-> FALSE, connects |-> 0, halves |-> 0,
              down |-> FALSE]

AgeClass(t) ==
    IF t <= Threshold - TicksPerSec THEN "early"
    ELSE IF t < Threshold THEN "late"
    ELSE IF t = Threshold THEN "edge"
    ELSE "over"

HalfPeriods(t) == IF t < 0 THEN 0 ELSE Min(4, (2 * t) \div Period)

(***************************************************************************)
(* health_check.rs: LAST_DB_WRITE and update.                              *)
(***************************************************************************)
LAST_DB_WRITE_at_now == BootWall

LAST_DB_WRITE_init == UNIX_EPOCH

\* *guard = SystemTime::now()
update ==
    /\ last_db_write' = wall
    /\ updated' = TRUE
    /\ adjusted' = FALSE
    /\ revived' = (updated /\ wall - last_db_write >= Threshold)

(***************************************************************************)
(* health_check.rs: check_impl's decision and check's exit code.           *)
(***************************************************************************)
healthy_inclusive(secs, now) ==
    LET time == UNIX_EPOCH + from_secs(secs) IN
    IF time > now THEN TRUE ELSE now - time <= Threshold

healthy_future_fails(secs, now) ==
    LET time == UNIX_EPOCH + from_secs(secs) IN
    IF time > now THEN FALSE ELSE now - time < Threshold

healthy_short_window(secs, now) ==
    LET time == UNIX_EPOCH + from_secs(secs) IN
    IF time > now THEN TRUE ELSE now - time < Threshold - TicksPerSec

\* time.elapsed() fails when time is later than now
healthy(secs, now) ==
    LET time == UNIX_EPOCH + from_secs(secs) IN
    IF time > now THEN TRUE ELSE now - time < Threshold

check_err_healthy(result) ==
    CASE result = "Ok(true)" -> HEALTHY
      [] result = "Ok(false)" -> UNHEALTHY
      [] OTHER -> HEALTHY

check(result) ==
    CASE result = "Ok(true)" -> HEALTHY
      [] result = "Ok(false)" -> UNHEALTHY
      [] OTHER -> UNHEALTHY

(***************************************************************************)
(* main.rs, the poll loop.                                                 *)
(***************************************************************************)
\* handle_location for every location: the batch of cycle number k + 1
Collect(outcome, k) ==
    LET batch == CollectErrors(outcome, 1) IN
    /\ errors' = batch
    /\ changes' = IF (batch # <<>>) # (run_len > 0) THEN changes + 1 ELSE changes
    /\ run_len' = IF batch = <<>> THEN 0 ELSE run_len + 1
    /\ run_alerts' = IF batch # <<>> /\ run_len > 0 THEN run_alerts ELSE 0
    /\ run_differs' = /\ batch # <<>>
                      /\ run_len > 0
                      /\ (run_differs \/ batch # errors)
    /\ scen' = IF scen = k /\ k < Len(Scenario) /\ batch = Scenario[k + 1]
               THEN scen + 1 ELSE -1

\* interval.tick().await, then handle_location for every location
PollTick ==
    /\ poll_pc = "tick"
    /\ cycle < MaxCycles
    /\ \E outcome \in Outcomes : Collect(outcome, cycle)
    /\ cycle' = cycle + 1
    /\ poll_pc' = "update"
    /\ UNCHANGED <<errors_reported, log, sent, before, poll_updates, evals>>
    /\ UNCHANGED <<clockVars, srvVars, probeVars, auxVars>>

\* health_check::update()
\* the cycle going back to the tick without awaiting its alert evaluation
PollUpdate_detached ==
    /\ poll_pc = "update"
    /\ update
    /\ poll_updates' = poll_updates + 1
    /\ poll_pc' = "tick"
    /\ UNCHANGED <<errors, errors_reported, log, sent, before, cycle, changes,
                   run_len, run_alerts, run_differs, scen, evals>>
    /\ UNCHANGED <<endian, build, wall, setbacks, srvVars, probeVars, auxVars>>

PollUpdate ==
    /\ poll_pc = "update"
    /\ update
    /\ poll_updates' = poll_updates + 1
    /\ poll_pc' = "alert"
    /\ UNCHANGED <<errors, errors_reported, log, sent, before, cycle, changes,
                   run_len, run_alerts, run_differs, scen, evals>>
    /\ UNCHANGED <<endian, build, wall, setbacks, srvVars, probeVars, auxVars>>

\* update() called once the evaluation and its send have returned
PollAlert_updates ==
    /\ poll_pc = "alert"
    /\ \E ok \in BOOLEAN : handle_location_errors(errors, ok)
    /\ before' = errors_reported
    /\ run_alerts' = run_alerts +
           Cardinality({i \in Len(log) + 1 .. Len(log') : log'[i].kind = "alert"})
    /\ evals' = evals + 1
    /\ poll_pc' = "tick"
    /\ update
    /\ UNCHANGED <<errors, cycle, changes, run_len, run_differs, scen, poll_updates>>
    /\ UNCHANGED <<endian, build, wall, setbacks, srvVars, probeVars, auxVars>>

\* handle_location_errors(errors.as_slice(), &mut errors_reported, &webhook).await
PollAlert ==
    /\ poll_pc = "alert"
    /\ \E ok \in BOOLEAN : handle_location_errors(errors, ok)
    /\ before' = errors_reported
    /\ run_alerts' = run_alerts +
           Cardinality({i \in Len(log) + 1 .. Len(log') : log'[i].kind = "alert"})
    /\ evals' = evals + 1
    /\ poll_pc' = "tick"
    /\ UNCHANGED <<errors, cycle, changes, run_len, run_differs, scen, poll_updates>>
    /\ UNCHANGED <<clockVars, srvVars, probeVars, auxVars>>

(***************************************************************************)
(* The system clock, and update() called by the owner of the heartbeat.    *)
(***************************************************************************)
Tick ==
    /\ wall < MaxWall
    /\ wall' = wall + 1
    /\ UNCHANGED <<endian, build, setbacks, last_db_write, updated, adjusted, revived>>
    /\ UNCHANGED <<alertVars, srvVars, probeVars, auxVars>>

ClockSetBack ==
    /\ setbacks < MaxSetBacks
    /\ \E w \in BootWall .. wall - 1 : wall' = w
    /\ setbacks' = setbacks + 1
    /\ adjusted' = TRUE
    /\ conn' = [i \in ConnIds |->
                  IF conn[i].reply # <<>> THEN [conn[i] EXCEPT !.setback = TRUE]
                  ELSE conn[i]]
    /\ UNCHANGED <<endian, build, last_db_write, updated, revived, srv_pc, srv_conn, backlog,
                   abandoned>>
    /\ UNCHANGED <<alertVars, probeVars, auxVars>>

UpdateCall ==
    /\ update
    /\ UNCHANGED <<endian, build, wall, setbacks>>
    /\ UNCHANGED <<alertVars, srvVars, probeVars, auxVars>>

(***************************************************************************)
(* health_check.rs: listen, listen_loop, respond.                          *)
(***************************************************************************)
\* the task ends with Err: the listener and the stream it holds are dropped
SrvStop ==
    /\ srv_pc' = "stopped"
    /\ srv_conn' = 0
    /\ backlog' = <<>>
    /\ conn' = [i \in ConnIds |->
                  IF i = srv_conn \/ \E j \in 1..Len(backlog) : backlog[j] = i
                  THEN Norm([conn[i] EXCEPT !.srv_open = FALSE])
                  ELSE conn[i]]
    /\ abandoned' = 0

\* the loop accepting again while the stream of the iteration stays open
SrvDrop_keeps(c) ==
    /\ conn' = [conn EXCEPT ![srv_conn] = c]
    /\ srv_conn' = 0
    /\ srv_pc' = "accept"
    /\ UNCHANGED backlog

\* the iteration ends: the stream is dropped, the loop accepts again
SrvDrop(c) ==
    /\ conn' = [conn EXCEPT ![srv_conn] = Norm([c EXCEPT !.srv_open = FALSE])]
    /\ srv_conn' = 0
    /\ srv_pc' = "accept"
    /\ UNCHANGED backlog

\* listen: create_dir_all, remove_file, UnixListener::bind
SrvBind ==
    /\ srv_pc = "bind"
    /\ \E ok \in BOOLEAN :
         IF ok THEN srv_pc' = "accept" /\ UNCHANGED <<srv_conn, backlog, conn, abandoned>>
         ELSE SrvStop
    /\ UNCHANGED <<alertVars, clockVars, probeVars, auxVars>>

\* listen_loop: listener.accept().await
SrvAccept ==
    /\ srv_pc = "accept"
    /\ \/ /\ backlog # <<>>
          /\ srv_conn' = Head(backlog)
          /\ backlog' = Tail(backlog)
          /\ srv_pc' = "read"
          /\ UNCHANGED <<conn, abandoned>>
       \/ SrvStop
    /\ UNCHANGED <<alertVars, clockVars, probeVars, auxVars>>

\* listen_loop: stream.readable().await, stream.try_read(&mut buf)
SrvRead ==
    /\ srv_pc = "read"
    /\ LET c == conn[srv_conn] IN
       \/ /\ c.ping > 0
          /\ conn' = [conn EXCEPT ![srv_conn].ping = 0]
          /\ srv_pc' = "respond"
          /\ UNCHANGED <<srv_conn, backlog, abandoned>>
       \/ /\ c.ping = 0
          /\ SrvDrop(c)
          /\ abandoned' = srv_conn
       \/ SrvStop
    /\ UNCHANGED <<alertVars, clockVars, probeVars, auxVars>>

\* respond: the snapshot of LAST_DB_WRITE as whole seconds, try_write
respond(c, k) ==
    [c EXCEPT !.reply = SubSeq(to_ne_bytes(as_secs(last_db_write - UNIX_EPOCH)), 1, k),
              !.snap = last_db_write,
              !.setback = adjusted]

\* listen_loop: stream.writable().await, respond(&stream).await
SrvRespond ==
    /\ srv_pc = "respond"
    /\ LET c == conn[srv_conn] IN
       \/ /\ c.cli_open
          /\ \E k \in 1..ReplyLen : SrvDrop(respond(c, k))
          /\ abandoned' = 0
       \/ SrvStop
    /\ UNCHANGED <<alertVars, clockVars, probeVars, auxVars>>

(***************************************************************************)
(* main.rs --health-check: health_check::check and check_impl.             *)
(***************************************************************************)
\* check_impl returns: the process exits with check's code, its socket closes
ProbeExit(result, v) ==
    /\ probe_pc' = "exited"
    /\ exit_code' = check(result)
    /\ verdict' = [v EXCEPT !.result = result,
                            !.age = AgeClass(wall - last_db_write),
                            !.halves = HalfPeriods(wall - last_db_write),
                            !.revived = revived]
    /\ probe_conn' = 0
    /\ IF probe_conn = 0 THEN UNCHANGED conn
       ELSE conn' = [conn EXCEPT ![probe_conn] = Norm([@ EXCEPT !.cli_open = FALSE])]

\* a probe process starts: UnixStream::connect(HEALTH_CHECK_PATH)
ProbeConnect ==
    /\ probe_pc \in {"none", "exited"}
    /\ probes < MaxProbes
    /\ probes' = probes + 1
    /\ LET v == [NoVerdict EXCEPT !.connects = 1] IN
       IF Listening
       THEN /\ conn' = [conn EXCEPT ![NextConn] = NewConn]
            /\ backlog' = Append(backlog, NextConn)
            /\ probe_conn' = NextConn
            /\ probe_pc' = "ping"
            /\ exit_code' = -1
            /\ verdict' = v
       ELSE /\ ProbeExit("ConnectSocket", [v EXCEPT !.down = (srv_pc = "stopped")])
            /\ UNCHANGED backlog
    /\ UNCHANGED <<srv_pc, srv_conn, abandoned>>
    /\ UNCHANGED <<alertVars, clockVars, auxVars>>

\* stream.writable().await, stream.try_write(&[1])
ProbePing ==
    /\ probe_pc = "ping"
    /\ \/ /\ conn[probe_conn].srv_open
          /\ conn' = [conn EXCEPT ![probe_conn].ping = 1]
          /\ probe_pc' = "read"
          /\ UNCHANGED <<probe_conn, exit_code, verdict>>
       \/ \E e \in {"SocketReady", "WriteSocket"} : ProbeExit(e, verdict)
    /\ UNCHANGED <<probes, srv_pc, srv_conn, backlog, abandoned>>
    /\ UNCHANGED <<alertVars, clockVars, auxVars>>

\* stream.readable().await, stream.try_read(&mut buf), the decision
ProbeRead ==
    /\ probe_pc = "read"
    /\ LET c == conn[probe_conn] IN
       \/ /\ c.reply # <<>> \/ ~c.srv_open
          /\ LET n == Len(c.reply)
                 buf == [i \in 1..ReplyLen |-> IF i <= n THEN c.reply[i] ELSE 0]
                 secs == from_ne_bytes(buf)
             IN ProbeExit(IF healthy(secs, wall) THEN "Ok(true)" ELSE "Ok(false)",
                          [verdict EXCEPT
                              !.n = n,
                              !.within = wall - from_secs(as_secs(c.snap)) < Threshold,
                              !.ahead = IF from_secs(secs) <= wall THEN 0
                                        ELSE IF from_secs(secs) - wall < Threshold THEN 1
                                        ELSE 2,
                              !.fresh = updated /\ c.snap = last_db_write,
                              !.setback = c.setback])
       \/ \E e \in {"SocketReady", "ReadSocket"} : ProbeExit(e, verdict)
    /\ UNCHANGED <<probes, srv_pc, srv_conn, backlog, abandoned>>
    /\ UNCHANGED <<alertVars, clockVars, auxVars>>

\* a probe from connect to exit against the server as it is, nothing failing
\* and no time passing between its steps
ProbeQuery ==
    /\ probe_pc \in {"none", "exited"}
    /\ LET v == [NoVerdict EXCEPT !.connects = 1] IN
       IF srv_pc = "accept"
       THEN LET reply == to_ne_bytes(as_secs(last_db_write - UNIX_EPOCH))
                secs == from_ne_bytes(reply)
            IN ProbeExit(IF healthy(secs, wall) THEN "Ok(true)" ELSE "Ok(false)",
                         [v EXCEPT
                             !.n = Len(reply),
                             !.within = wall - from_secs(as_secs(last_db_write)) < Threshold,
                             !.fresh = updated])
       ELSE ProbeExit("ConnectSocket", [v EXCEPT !.down = (srv_pc = "stopped")])
    /\ UNCHANGED <<probes, srv_pc, srv_conn, backlog, abandoned>>
    /\ UNCHANGED <<alertVars, clockVars, auxVars>>

(***************************************************************************)
(* main.rs, the poll loop on its timer. Time passes in steps of Quantum    *)
(* while the loop awaits the timer, the forecast and database calls and    *)
(* the webhook.                                                            *)
(***************************************************************************)
\* tokio's Interval with the MissedTickBehavior it is created with, Burst:
\* the next tick is due one period after the last was due, whatever the time
next_timeout(timeout, now, period) == timeout + period

\* the collections a timed behaviour draws from: all well, one location fails
TimedOutcomes ==
    {[l \in Locations |-> "ok"],
     [l \in Locations |-> IF l = 1 THEN "RequestForecast" ELSE "ok"]}

\* time passes while the poll loop works or waits for a deadline ahead; a
\* tick that is due wakes the loop before more time passes
Pass ==
    /\ wall < BootWall + MaxSlots * Quantum
    /\ ~(poll_pc = "tick" /\ cycle < MaxCycles /\ wall >= deadline)
    /\ wall' = wall + Quantum
    /\ UNCHANGED <<endian, build, setbacks, last_db_write, updated, adjusted, revived>>
    /\ UNCHANGED <<alertVars, srvVars, probeVars, auxVars>>

\* interval.tick().await returns
TimerTick ==
    /\ poll_pc = "tick"
    /\ cycle < MaxCycles
    /\ wall >= deadline
    /\ deadline' = next_timeout(deadline, wall, Period)
    /\ short_gap' = (cycle > 0 /\ wall - started < Period)
    /\ started' = wall
    /\ cycle' = cycle + 1
    /\ poll_pc' = "collect"
    /\ UNCHANGED <<errors, errors_reported, log, sent, before, changes, run_len,
                   run_alerts, run_differs, scen, poll_updates, evals>>
    /\ UNCHANGED <<clockVars, srvVars, probeVars, cliVars, guardVars>>

\* handle_location(...).await for every location
TimerCollect ==
    /\ poll_pc = "collect"
    /\ \E outcome \in TimedOutcomes : Collect(outcome, cycle - 1)
    /\ poll_pc' = "update"
    /\ UNCHANGED <<errors_reported, log, sent, before, cycle, poll_updates, evals>>
    /\ UNCHANGED <<clockVars, srvVars, probeVars, auxVars>>

(***************************************************************************)
(* health_check.rs, respond and update statement by statement: the mutex   *)
(* of LAST_DB_WRITE, and the SystemTime behind it stored as its two words, *)
(* the whole seconds and the fraction of a second.                         *)
(***************************************************************************)
\* respond locking LAST_DB_WRITE before it awaits the stream
GuardWritable_holding ==
    /\ srv_pc = "respond"
    /\ guard = "free"
    /\ guard' = "server"
    /\ srv_pc' = "lock"
    /\ UNCHANGED <<srv_conn, backlog, conn, abandoned, upd_pc, upd_now, committed>>
    /\ UNCHANGED <<alertVars, clockVars, probeVars, cliVars, timerVars>>

\* respond reading LAST_DB_WRITE without its mutex
GuardLock_unguarded ==
    /\ srv_pc = "lock"
    /\ srv_pc' = "write"
    /\ UNCHANGED <<srv_conn, backlog, conn, abandoned>>
    /\ UNCHANGED guardVars
    /\ UNCHANGED <<alertVars, clockVars, probeVars, cliVars, timerVars>>

\* listen_loop and respond: stream.writable().await, twice
GuardWritable ==
    /\ srv_pc = "respond"
    /\ \/ /\ srv_pc' = "lock"
          /\ UNCHANGED <<srv_conn, backlog, conn, abandoned>>
       \/ SrvStop
    /\ UNCHANGED guardVars
    /\ UNCHANGED <<alertVars, clockVars, probeVars, cliVars, timerVars>>

\* respond: LAST_DB_WRITE.lock()
GuardLock ==
    /\ srv_pc = "lock"
    /\ guard = "free"
    /\ guard' = "server"
    /\ srv_pc' = "write"
    /\ UNCHANGED <<srv_conn, backlog, conn, abandoned, upd_pc, upd_now, committed>>
    /\ UNCHANGED <<alertVars, clockVars, probeVars, cliVars, timerVars>>

\* respond: try_write of the snapshot; respond returns and drops the guard
GuardWrite ==
    /\ srv_pc = "write"
    /\ LET c == conn[srv_conn] IN
       \/ /\ c.cli_open
          /\ \E k \in 1..ReplyLen : SrvDrop(respond(c, k))
          /\ abandoned' = 0
       \/ SrvStop
    /\ guard' = IF guard = "server" THEN "free" ELSE guard
    /\ UNCHANGED <<upd_pc, upd_now, committed>>
    /\ UNCHANGED <<alertVars, clockVars, probeVars, cliVars, timerVars>>

\* update() is called
GuardUpdCall ==
    /\ upd_pc = "idle"
    /\ upd_pc' = "lock"
    /\ UNCHANGED <<guard, upd_now, committed>>
    /\ UNCHANGED <<alertVars, clockVars, srvVars, probeVars, cliVars, timerVars>>

\* update: LAST_DB_WRITE.lock()
GuardUpdLock ==
    /\ upd_pc = "lock"
    /\ guard = "free"
    /\ guard' = "update"
    /\ upd_pc' = "secs"
    /\ UNCHANGED <<upd_now, committed>>
    /\ UNCHANGED <<alertVars, clockVars, srvVars, probeVars, cliVars, timerVars>>

\* update: SystemTime::now() is taken and its seconds are stored
GuardUpdSecs ==
    /\ upd_pc = "secs"
    /\ upd_now' = wall
    /\ last_db_write' = from_secs(as_secs(wall)) + (last_db_write % TicksPerSec)
    /\ upd_pc' = "nanos"
    /\ UNCHANGED <<guard, committed>>
    /\ UNCHANGED <<endian, build, wall, setbacks, updated, adjusted, revived>>
    /\ UNCHANGED <<alertVars, srvVars, probeVars, cliVars, timerVars>>

\* update: the fraction is stored; update returns and drops the guard
GuardUpdNanos ==
    /\ upd_pc = "nanos"
    /\ last_db_write' = upd_now
    /\ updated' = TRUE
    /\ adjusted' = FALSE
    /\ revived' = (updated /\ upd_now - committed >= Threshold)
    /\ committed' = upd_now
    /\ upd_now' = UNIX_EPOCH
    /\ guard' = IF guard = "update" THEN "free" ELSE guard
    /\ upd_pc' = "idle"
    /\ UNCHANGED <<endian, build, wall, setbacks>>
    /\ UNCHANGED <<alertVars, srvVars, probeVars, cliVars, timerVars>>

(***************************************************************************)
(* Other processes on the socket: whatever can open HEALTH_CHECK_PATH      *)
(* connects, and then sends a byte, stays silent, or closes.               *)
(***************************************************************************)
\* the connections a process other than the probe holds
ClientConns == {i \in ConnIds : conn[i].cli_open /\ i # probe_conn}

ClientConnect ==
    /\ clients < MaxClients
    /\ Listening
    /\ clients' = clients + 1
    /\ conn' = [conn EXCEPT ![NextConn] = NewConn]
    /\ backlog' = Append(backlog, NextConn)
    /\ UNCHANGED <<srv_pc, srv_conn, abandoned>>
    /\ UNCHANGED <<alertVars, clockVars, probeVars, timerVars, guardVars>>

ClientSend ==
    /\ \E i \in ClientConns :
         /\ conn[i].srv_open
         /\ conn[i].ping = 0
         /\ conn[i].reply = <<>>
         /\ conn' = [conn EXCEPT ![i].ping = 1]
    /\ UNCHANGED <<srv_pc, srv_conn, backlog, abandoned, clients>>
    /\ UNCHANGED <<alertVars, clockVars, probeVars, timerVars, guardVars>>

ClientClose ==
    /\ \E i \in ClientConns :
         conn' = [conn EXCEPT ![i] = Norm([@ EXCEPT !.cli_open = FALSE])]
    /\ UNCHANGED <<srv_pc, srv_conn, backlog, abandoned, clients>>
    /\ UNCHANGED <<alertVars, clockVars, probeVars, timerVars, guardVars>>

(***************************************************************************)
(* Specifications.                                                         *)
(***************************************************************************)
InitBuild(b) ==
    /\ poll_pc = "tick"
    /\ errors = <<>>
    /\ errors_reported = FALSE
    /\ log = <<>>
    /\ sent = <<>>
    /\ before = FALSE
    /\ cycle = 0
    /\ changes = 0
    /\ run_len = 0
    /\ run_alerts = 0
    /\ run_differs = FALSE
    /\ scen = 0
    /\ poll_updates = 0
    /\ evals = 0
    /\ endian \in {"little", "big"}
    /\ build = b
    /\ wall = BootWall
    /\ setbacks = 0
    /\ last_db_write = LAST_DB_WRITE_init
    /\ updated = FALSE
    /\ adjusted = FALSE
    /\ revived = FALSE
    /\ srv_pc = "bind"
    /\ srv_conn = 0
    /\ backlog = <<>>
    /\ conn = [i \in ConnIds |-> NoConn]
    /\ abandoned = 0
    /\ clients = 0
    /\ deadline = BootWall
    /\ started = BootWall
    /\ short_gap = FALSE
    /\ guard = "free"
    /\ upd_pc = "idle"
    /\ upd_now = UNIX_EPOCH
    /\ committed = UNIX_EPOCH
    /\ probe_pc = "none"
    /\ probe_conn = 0
    /\ probes = 0
    /\ exit_code = -1
    /\ verdict = NoVerdict

\* the program as cargo test builds it
Init == InitBuild("test")

\* the program as it is deployed
InitRelease == InitBuild("release")

\* the poll loop and its alert state machine
NextAlert == PollTick \/ PollUpdate \/ PollAlert

SpecAlert == Init /\ [][NextAlert]_vars

\* the heartbeat: the clock, the server task and probe processes
NextHealth ==
    \/ Tick
    \/ ClockSetBack
    \/ UpdateCall
    \/ SrvBind
    \/ SrvAccept
    \/ SrvRead
    \/ SrvRespond
    \/ ProbeConnect
    \/ ProbePing
    \/ ProbeRead

SpecHealth == Init /\ [][NextHealth]_vars

\* the heartbeat while the system clock is never set back
NextSteady ==
    \/ Tick
    \/ UpdateCall
    \/ SrvBind
    \/ SrvAccept
    \/ SrvRead
    \/ SrvRespond
    \/ ProbeConnect
    \/ ProbePing
    \/ ProbeRead

SpecSteady == Init /\ [][NextSteady]_vars

\* the socket: the server task, probes and other processes
NextServe ==
    \/ SrvBind
    \/ SrvAccept
    \/ SrvRead
    \/ SrvRespond
    \/ ProbeConnect
    \/ ProbePing
    \/ ProbeRead
    \/ ClientConnect
    \/ ClientSend
    \/ ClientClose

SpecServe == Init /\ [][NextServe]_vars

\* the server task runs whenever what it awaits is ready: a connection is
\* queued, the stream in service has a byte or its peer has closed, the
\* stream is writable
SrvMoves ==
    \/ backlog # <<>> /\ SrvAccept
    \/ /\ srv_pc = "read"
       /\ conn[srv_conn].ping > 0 \/ ~conn[srv_conn].cli_open
       /\ SrvRead
    \/ SrvRespond

\* the probe runs whenever what it awaits is ready: its stream is writable,
\* a reply has arrived or the server's end is closed
ProbeMoves ==
    \/ ProbePing
    \/ /\ probe_pc = "read"
       /\ conn[probe_conn].reply # <<>> \/ ~conn[probe_conn].srv_open
       /\ ProbeRead

SpecServeFair == SpecServe /\ WF_vars(SrvMoves) /\ WF_vars(ProbeMoves)

\* the heartbeat with respond and update followed statement by statement
NextGuard ==
    \/ Tick
    \/ GuardUpdCall
    \/ GuardUpdLock
    \/ GuardUpdSecs
    \/ GuardUpdNanos
    \/ SrvBind
    \/ SrvAccept
    \/ SrvRead
    \/ GuardWritable
    \/ GuardLock
    \/ GuardWrite
    \/ ProbeConnect
    \/ ProbePing
    \/ ProbeRead

SpecGuard == Init /\ [][NextGuard]_vars

\* the deployed program in time: the poll loop on its interval, the server
\* bound or not, and probes
NextTimer ==
    \/ Pass
    \/ TimerTick
    \/ TimerCollect
    \/ PollUpdate
    \/ PollAlert
    \/ SrvBind
    \/ ProbeQuery

SpecTimer == InitRelease /\ [][NextTimer]_vars

(***************************************************************************)
(* The alert state machine.                                                *)
(***************************************************************************)
AllOk == \A i \in 1..Len(log) : log[i].ok

Kinds(l) == [i \in 1..Len(l) |-> l[i].kind]

Delivered == SelectSeq(log, LAMBDA e : e.ok)

\* between evaluations: errors is the batch the last evaluation saw, before
\* the alert state it began with, sent what it executed
Evaluated == poll_pc = "tick" /\ cycle > 0

\* C1: one evaluation of handle_location_errors does what the transition
\* table says for the alert state before, the batch and the outcome of the
\* send: quiet and empty, nothing; quiet and non-empty, one alert holding
\* the batch, outstanding iff it succeeded; outstanding and non-empty,
\* nothing; outstanding and empty, one resolved, quiet iff it succeeded.
\* No evaluation executes the webhook more than once.
C1_TransitionTable ==
    /\ Len(sent) <= 1
    /\ Len(log) <= cycle
    /\ Evaluated =>
         CASE ~before /\ errors = <<>> ->
                 sent = <<>> /\ ~errors_reported
           [] ~before /\ errors # <<>> ->
                 /\ Len(sent) = 1
                 /\ sent[1].kind = "alert"
                 /\ sent[1].fields = errors
                 /\ errors_reported = sent[1].ok
           [] before /\ errors # <<>> ->
                 sent = <<>> /\ errors_reported
           [] before /\ errors = <<>> ->
                 /\ Len(sent) = 1
                 /\ sent[1].kind = "resolved"
                 /\ errors_reported = ~sent[1].ok

\* an evaluation whose resolved send failed
C1_Witness ==
    /\ Evaluated
    /\ before
    /\ errors = <<>>
    /\ sent # <<>>
    /\ ~sent[1].ok
    /\ errors_reported

\* C2: the alert state changes only in a step whose send succeeded; a step
\* whose send failed leaves it as it was and returns the loop to its tick;
\* and the evaluation after a failed send executes the same kind of send
\* again when its batch calls for it (non-empty after a failed alert, empty
\* after a failed resolved), with its own batch.
C2_FailedSendRetried ==
    [][ /\ errors_reported' # errors_reported =>
               Len(log') = Len(log) + 1 /\ log'[Len(log')].ok
        /\ (Len(log') > Len(log) /\ ~log'[Len(log')].ok) =>
               errors_reported' = errors_reported /\ poll_pc' = "tick"
        /\ ( /\ poll_pc = "alert"
             /\ sent # <<>>
             /\ ~sent[1].ok
             /\ (sent[1].kind = "alert") = (errors # <<>>) ) =>
               /\ Len(log') = Len(log) + 1
               /\ log'[Len(log')].kind = sent[1].kind
               /\ sent'[1].fields = errors
      ]_vars

\* an alert that failed, then the alert of the next non-empty batch delivered
C2_Witness ==
    /\ Len(log) >= 2
    /\ log[Len(log) - 1] = [kind |-> "alert", ok |-> FALSE]
    /\ log[Len(log)] = [kind |-> "alert", ok |-> TRUE]
    /\ errors_reported

\* sends after each cycle of Scenario when every send succeeds
ScenarioSends == <<1, 2, 3, 3, 4>>

SendsEqualChanges ==
    (Evaluated /\ AllOk) =>
        /\ Len(log) = changes
        /\ run_len > 0 => run_alerts = 1
        /\ run_len = 0 => run_alerts = 0

\* C3 as amended: with every send succeeding, the sends so far are as many
\* as the changes between empty and non-empty batches (the start counted as
\* empty), a run of non-empty batches has executed exactly one alert
\* whatever its batches hold, and [E1], [], [E2,E3], [E2,E3], [] gives
\* alert(E1), resolved, alert(E2,E3), nothing, resolved: 4 sends.
C3_SendsEqualChanges ==
    /\ SendsEqualChanges
    /\ (Evaluated /\ AllOk /\ scen > 0) =>
         /\ Len(log) = ScenarioSends[scen]
         /\ Kinds(log) = SubSeq(<<"alert", "resolved", "alert", "resolved">>,
                                1, ScenarioSends[scen])
         /\ scen \in {1, 3} => sent[1].fields = Scenario[scen]
         /\ scen = 4 => sent = <<>>

\* the whole of Scenario has run, every send delivered
C3_Witness ==
    /\ Evaluated
    /\ AllOk
    /\ scen = Len(Scenario)
    /\ Len(log) = 4

\* a run of three non-empty batches that differ, one alert
C3_RunWitness ==
    /\ Evaluated
    /\ AllOk
    /\ run_len >= 3
    /\ run_differs
    /\ run_alerts = 1

\* C3 as stated: ... the concrete sequence gives exactly 3 sends.
C3_Original ==
    /\ SendsEqualChanges
    /\ (Evaluated /\ AllOk /\ scen = Len(Scenario)) =>
         /\ Kinds(log) = <<"alert", "resolved", "alert", "resolved">>
         /\ Len(log) = 3

\* C4: the delivered notifications are alert, resolved, alert, ... in turn,
\* beginning with alert, and the alert state is outstanding exactly when
\* the last one delivered is an alert.
C4_DeliveredAlternate ==
    /\ \A i \in 1..Len(Delivered) :
         Delivered[i].kind = IF i % 2 = 1 THEN "alert" ELSE "resolved"
    /\ errors_reported =
         (Delivered # <<>> /\ Delivered[Len(Delivered)].kind = "alert")

\* three notifications delivered, with sends that failed in between
C4_Witness ==
    /\ Len(Delivered) >= 3
    /\ Len(log) > Len(Delivered)
    /\ errors_reported

(***************************************************************************)
(* The heartbeat probe.                                                    *)
(***************************************************************************)
\* the probe process has exited
Decided == probe_pc = "exited"

\* check_impl read a reply and decided on it
Answered == Decided /\ verdict.result \in {"Ok(true)", "Ok(false)"}

\* ... and the reply had all its bytes
FullReply == Answered /\ verdict.n = ReplyLen

\* C5 as amended: a probe that reads the whole reply reports healthy iff the
\* snapshot, cut down to whole seconds, is less than HealthThreshold behind
\* the probe's clock; so, on a clock that was not set back, an elapsed time
\* of HealthThreshold or more (exactly HealthThreshold included) always
\* gives unhealthy, while one below it gives healthy only if it still is
\* below it when counted from the whole second of the update.
C5_HealthyIffWithin ==
    /\ FullReply => (exit_code = HEALTHY) = verdict.within
    /\ (Answered /\ ~verdict.setback /\ verdict.age \in {"edge", "over"}) =>
           exit_code = UNHEALTHY

\* the reply reports an update() exactly HealthThreshold ago: unhealthy
C5_Witness ==
    /\ FullReply
    /\ updated
    /\ verdict.fresh
    /\ ~verdict.setback
    /\ verdict.age = "edge"
    /\ exit_code = UNHEALTHY

\* C5 as stated: healthy iff the time since the last update() is below
\* HealthThreshold.
C5_Original ==
    (FullReply /\ verdict.fresh /\ ~verdict.setback) =>
        (exit_code = HEALTHY) = (verdict.age \in {"early", "late"})

\* C6: while update() has never been called, every probe exits unhealthy.
C6_UnhealthyBeforeUpdate ==
    (Decided /\ ~updated) => exit_code = UNHEALTHY

\* a running server answered with the epoch
C6_Witness ==
    /\ FullReply
    /\ ~updated
    /\ exit_code = UNHEALTHY

\* C7 as amended: a probe whose reply reports the last update() is healthy
\* whenever that update() is at most HealthThreshold less one second old on
\* the probe's clock, right after the update() included, and also when the
\* update() ended an unhealthy period.
C7_HealthyWhileUpdated ==
    (FullReply /\ verdict.fresh /\ ~verdict.setback /\ verdict.age = "early") =>
        exit_code = HEALTHY

\* healthy again after an update() that came after an unhealthy period
C7_Witness ==
    /\ FullReply
    /\ verdict.fresh
    /\ ~verdict.setback
    /\ verdict.age = "early"
    /\ verdict.revived
    /\ exit_code = HEALTHY

\* C7 as stated: healthy after every wait shorter than HealthThreshold.
C7_Original ==
    (FullReply /\ verdict.fresh /\ ~verdict.setback
        /\ verdict.age \in {"early", "late"}) =>
        exit_code = HEALTHY

\* C8: a probe exits with 0 or 1; whenever check_impl fails (connect,
\* readiness, write or read) it exits with 1; and an invocation connects
\* once, whatever the outcome.
C8_ExitCodes ==
    /\ exit_code \in {-1, HEALTHY, UNHEALTHY}
    /\ Decided = (exit_code # -1)
    /\ (Decided /\ ~Answered) =>
           /\ verdict.result \in {"ConnectSocket", "SocketReady",
                                  "WriteSocket", "ReadSocket"}
           /\ exit_code = UNHEALTHY
    /\ probe_pc # "none" => verdict.connects = 1

\* a probe whose read failed
C8_Witness ==
    /\ Decided
    /\ verdict.result = "ReadSocket"
    /\ exit_code = UNHEALTHY

\* C9: a probe that reads fewer than ReplyLen bytes reports unhealthy.
C9_ShortReplyUnhealthy ==
    (Answered /\ verdict.n < ReplyLen) => exit_code = UNHEALTHY

\* C10: a decoded timestamp later than the probe's clock gives healthy,
\* however far ahead it is.
C10_FutureIsHealthy ==
    (Answered /\ verdict.ahead > 0) => exit_code = HEALTHY

\* a timestamp HealthThreshold or more ahead of the probe's clock
C10_Witness ==
    /\ Answered
    /\ verdict.ahead = 2
    /\ exit_code = HEALTHY

(***************************************************************************)
(* The heartbeat server.                                                   *)
(***************************************************************************)
\* C11: the serve loop ends only by a failure to accept (or, before the
\* loop, to bind); a failure of readable(), try_read, writable() or
\* try_write on the connection in service leaves the server running.
C11_OnlyAcceptFailureStops ==
    [][srv_pc' = "stopped" => srv_pc \in {"bind", "accept", "stopped"}]_vars

\* C12: when try_read returns Ok(0) or WouldBlock the server does not end:
\* it drops that connection and is back at accept; and a connection served
\* after it, once its ping is read, gets its reply.
C12_AbandonAndServeOn ==
    [][ /\ (abandoned' # 0 /\ abandoned' # abandoned) =>
               /\ srv_pc' = "accept"
               /\ srv_conn' = 0
               /\ ~conn'[abandoned'].srv_open
        /\ (abandoned # 0 /\ srv_pc = "respond" /\ srv_pc' # "respond") =>
               /\ srv_pc' = "accept"
               /\ conn'[srv_conn].reply # <<>>
      ]_vars

(***************************************************************************)
(* The poll loop and the heartbeat.                                        *)
(***************************************************************************)
\* C13: LAST_DB_WRITE moves only in a cycle whose batch of errors is empty;
\* so while every cycle so far has failed it still holds the epoch, and a
\* probe reports unhealthy.
C13_UpdateOnlyOnSuccess ==
    [][ /\ (last_db_write' # last_db_write) => errors = <<>>
        /\ (Decided' /\ cycle' > 0 /\ run_len' = cycle') => exit_code' = UNHEALTHY
      ]_vars

\* C14: a probe invocation makes one connection, and whatever other
\* processes hold connections to the server, one that stays silent
\* included, a probe that has connected reaches its verdict.
C14_ProbeDecides ==
    /\ [](probe_pc # "none" => verdict.connects = 1)
    /\ (probe_pc \in {"ping", "read"}) ~> Decided

C16_GuardOnlyForTheInstant ==
    /\ guard = "server" <=> srv_pc = "write"
    /\ guard = "update" <=> upd_pc \in {"secs", "nanos"}
    /\ guard = "server" => ENABLED GuardWrite
    /\ guard = "update" => ENABLED (GuardUpdSecs \/ GuardUpdNanos)

\* update() waits for the guard while respond holds it for its write
C16_Witness ==
    /\ guard = "server"
    /\ srv_pc = "write"
    /\ upd_pc = "lock"
    /\ updated

\* the server waits for the guard while update() is half way through its
\* store
C16_WitnessUpdate ==
    /\ guard = "update"
    /\ upd_pc = "nanos"
    /\ srv_pc = "lock"

\* C17: the snapshot the server sends is a value LAST_DB_WRITE held: the one
\* the last completed update() stored (the epoch before the first) or the
\* one an update() is about to complete, never a value half stored; it is
\* never older than the last completed update, and the bytes sent are the
\* whole seconds of that snapshot.
C17_SnapshotNeverTorn ==
    [][(srv_pc = "write" /\ srv_pc' = "accept") =>
        LET c == conn'[srv_conn] IN
        /\ c.snap \in ({committed} \cup (IF upd_pc = "nanos" THEN {upd_now} ELSE {}))
        /\ c.snap >= committed
        /\ c.reply = SubSeq(to_ne_bytes(as_secs(c.snap)), 1, Len(c.reply))]_vars

\* a reply was written after a second update() completed at a time with a
\* fraction of a second, over a value with none
C17_Witness ==
    /\ srv_pc = "accept"
    /\ revived = FALSE
    /\ \E i \in ConnIds :
          /\ conn[i].reply # <<>>
          /\ conn[i].snap = committed
          /\ committed % TicksPerSec # 0
          /\ committed > BootWall

\* C18: the poll loop is in one cycle at a time; when it waits for the tick
\* every cycle so far has called update() once and evaluated the alerts
\* once, update() of a cycle comes after the evaluation of the cycle
\* before and before its own; LAST_DB_WRITE changes only in that call, and
\* errors_reported changes only in the evaluation step of the poll loop,
\* never in a step of the server, of a probe or of update().
C18_CyclesSequential ==
    /\ [](/\ poll_pc = "tick" => (poll_updates = cycle /\ evals = cycle)
          /\ poll_pc \in {"collect", "update"} =>
                (poll_updates = cycle - 1 /\ evals = cycle - 1)
          /\ poll_pc = "alert" => (poll_updates = cycle /\ evals = cycle - 1))
    /\ [][/\ errors_reported' # errors_reported =>
                (poll_pc = "alert" /\ poll_pc' = "tick" /\ evals' = evals + 1)
          /\ last_db_write' # last_db_write =>
                (poll_pc = "update" /\ poll_pc' = "alert"
                 /\ poll_updates' = poll_updates + 1)
          /\ poll_updates' # poll_updates => poll_updates = evals
          /\ evals' # evals => poll_updates = evals + 1]_vars

\* the third cycle has called update() and is about to evaluate, after an
\* evaluation that changed errors_reported and a probe that was answered
C18_Witness ==
    /\ cycle = 3
    /\ poll_pc = "alert"
    /\ poll_updates = 3
    /\ evals = 2
    /\ errors_reported # before
    /\ Answered

\* C19: a tick of the poll loop never completes less than one interval
\* after the tick before it.
C19_TicksOneIntervalApart == ~short_gap

\* C20: the server has at most one accepted connection in service, none
\* while it accepts; every connection accepted before the one in service
\* is finished (its stream dropped), every connection still waiting in the
\* listener was made after it and has no reply, and replies are written in
\* the order of acceptance: a reply is written to the connection in
\* service only, and no connection made later has one.
C20_OneConnectionAtATime ==
    /\ [](LET served == {i \in ConnIds : /\ conn[i].srv_open
                                           /\ \A j \in 1..Len(backlog) : backlog[j] # i}
          IN /\ served = (IF srv_conn = 0 THEN {} ELSE {srv_conn})
             /\ (srv_conn # 0) = (srv_pc \in {"read", "respond", "lock", "write"})
             /\ \A j \in 1..Len(backlog) :
                   /\ conn[backlog[j]].reply = <<>>
                   /\ srv_conn # 0 => backlog[j] > srv_conn
                   /\ \A k \in 1..j - 1 : backlog[k] < backlog[j])
    /\ [][\A i \in ConnIds :
            (conn'[i].reply # conn[i].reply /\ conn'[i].reply # <<>>) =>
               /\ i = srv_conn
               /\ srv_pc = "respond"
               /\ srv_conn' = 0
               /\ \A j \in ConnIds : j > i => conn[j].reply = <<>>]_vars

\* a connection is about to be answered while a probe that has sent its
\* ping waits in the listener
C20_Witness ==
    /\ srv_conn # 0
    /\ srv_pc = "respond"
    /\ backlog = <<probe_conn>>
    /\ probe_pc = "read"
    /\ conn[probe_conn].ping > 0

\* the probe is being served after an earlier connection was answered
C20_WitnessOrder ==
    /\ srv_conn = probe_conn
    /\ srv_pc = "respond"
    /\ \E i \in ConnIds : i < srv_conn /\ conn[i].reply # <<>> /\ ~conn[i].srv_open

\* C21: once the server task has ended it stays ended; its ending changes
\* nothing of the poll loop, of LAST_DB_WRITE or of a running probe;
\* update() can still be called; and every probe started afterwards fails
\* to connect and exits unhealthy, however recent the last update() is.
C21_StoppedServerStaysDown ==
    /\ [](srv_pc = "stopped" => ENABLED UpdateCall)
    /\ [][/\ srv_pc = "stopped" => srv_pc' = "stopped"
          /\ (srv_pc # "stopped" /\ srv_pc' = "stopped") =>
                (UNCHANGED <<alertVars, clockVars>> /\ probe_pc' = probe_pc)
          /\ (srv_pc = "stopped" /\ probes' = probes + 1) =>
                /\ probe_pc' = "exited"
                /\ exit_code' = UNHEALTHY
                /\ verdict'.result = "ConnectSocket"
                /\ verdict'.down]_vars

\* a probe started after the server task ended was refused and exited
\* unhealthy at most the threshold less one second after an update()
C21_Witness ==
    /\ srv_pc = "stopped"
    /\ Decided
    /\ verdict.down
    /\ verdict.result = "ConnectSocket"
    /\ exit_code = UNHEALTHY
    /\ updated
    /\ verdict.age = "early"

\* update() was called after the server task ended: the probe refused
\* after the end saw a stale LAST_DB_WRITE, which is recent now, and the
\* clock was never set back
C21_WitnessUpdate ==
    /\ srv_pc = "stopped"
    /\ verdict.down
    /\ verdict.age = "over"
    /\ setbacks = 0
    /\ updated
    /\ AgeClass(wall - last_db_write) = "early"

\* C22: the time a probe decodes from the bytes it read is never later than
\* the snapshot of LAST_DB_WRITE they were written from, so the age it
\* computes is never below the snapshot's true age; and while the clock has
\* never been set back, a probe that decides on a snapshot whose true age
\* is HealthThreshold or more exits unhealthy.
C22_TruncationNeverFlatters ==
    [][(probe_pc = "read" /\ probe_pc' = "exited"
            /\ verdict'.result \in {"Ok(true)", "Ok(false)"}) =>
        LET c == conn[probe_conn]
            buf == [i \in 1..ReplyLen |-> IF i <= Len(c.reply) THEN c.reply[i] ELSE 0]
            time == UNIX_EPOCH + from_secs(from_ne_bytes(buf))
        IN /\ time <= c.snap
           /\ wall - time >= wall - c.snap
           /\ (setbacks = 0 /\ wall - c.snap >= Threshold) => exit_code' = UNHEALTHY
           /\ (setbacks = 0 /\ exit_code' = HEALTHY) => wall - c.snap < Threshold]_vars

\* the truncation turned a verdict: the snapshot's true age was below the
\* threshold, its age from the whole second was not, the probe exited
\* unhealthy
C22_Witness ==
    /\ FullReply
    /\ setbacks = 0
    /\ verdict.fresh
    /\ verdict.age = "late"
    /\ ~verdict.within
    /\ verdict.ahead = 0
    /\ exit_code = UNHEALTHY

\* a probe exited healthy on a snapshot with a fraction of a second, its
\* true age below the threshold
C22_WitnessHealthy ==
    /\ FullReply
    /\ setbacks = 0
    /\ verdict.fresh
    /\ last_db_write % TicksPerSec # 0
    /\ verdict.age \in {"early", "late"}
    /\ exit_code = HEALTHY

\* C23: a cycle goes tick, collection, update(), evaluation; update() is
\* called with the collection complete and this cycle's evaluation
\* not begun, it is always possible once the collection is complete, and it
\* sends nothing; when the evaluation begins the cycle's update() has been
\* made, and the evaluation with its send, whatever its outcome and however
\* long it took, leaves LAST_DB_WRITE as that update() set it.
C23_UpdateBeforeEvaluation ==
    /\ [](/\ poll_pc = "update" => ENABLED PollUpdate
          /\ poll_pc = "alert" =>
                (updated /\ poll_updates = cycle /\ last_db_write >= started))
    /\ [][/\ poll_pc' # poll_pc =>
                <<poll_pc, poll_pc'>> \in {<<"tick", "collect">>, <<"collect", "update">>,
                                          <<"update", "alert">>, <<"alert", "tick">>}
          /\ poll_updates' # poll_updates =>
                /\ poll_pc = "update"
                /\ evals = cycle - 1
                /\ last_db_write' = wall
                /\ UNCHANGED <<errors, errors_reported, log, sent>>
          /\ evals' # evals =>
                /\ poll_pc = "alert"
                /\ poll_updates = cycle
                /\ UNCHANGED <<last_db_write, updated, poll_updates>>]_vars

\* the second cycle's send failed after time had passed since its update(),
\* which was made after a collection that took time
C23_Witness ==
    /\ poll_pc = "tick"
    /\ cycle = 2
    /\ evals = 2
    /\ poll_updates = 2
    /\ sent # <<>>
    /\ ~sent[1].ok
    /\ last_db_write > started
    /\ wall > last_db_write

=============================================================================
